---------------------------- MODULE Spec2Model ----------------------------
(***************************************************************************)
(* A model of front_detection/__init__.py: the geodesic finite-difference  *)
(* layer (four_corner_shift, dist_between_grids, geo_gradient, norm,       *)
(* smooth_grid), the contour rasterizer (mask_zero_contour) and the two    *)
(* detectors (hewson_1998, simmonds_et_al_2012).                           *)
(*                                                                         *)
(* Numbers.  A numpy float is modelled as an integer in a fixed unit, or   *)
(* one of the three IEEE specials NaN, PInf, NInf.  Arithmetic follows the *)
(* IEEE rules for the specials and rounds quotients and roots to the       *)
(* nearest integer.  The units are                                         *)
(*     latitude, longitude   degrees                                       *)
(*     angles                tenths of a degree                            *)
(*     distances             100 km                                        *)
(*     theta                 0.01 K      (so a gradient is in 1e-7 K/m)    *)
(*     wind speeds           0.5 m/s                                       *)
(* so that k1, k2 and wind_thres of the source are whole numbers.          *)
(* A grid is a sequence of rows, each a sequence of numbers; row and       *)
(* column indices start at 1 where numpy's start at 0.                     *)
(***************************************************************************)
EXTENDS Integers, Sequences, FiniteSets, TLC

VARIABLES
    pc,      \* "call", "return", or the line hewson_1998 has reached
    op,      \* the operation called
    arg,     \* its arguments, as the caller holds them
    ret,     \* what it returned: [status |-> "ok" | "error", ...]
    loc,     \* hewson_1998's local variables so far
    dcalls,  \* the dist_between_grids calls made, in order: [site, lon0, lon1]
    mem,     \* the arrays in memory: the caller's and the operation's
    prev     \* what the same call returned the time before, if it was made

vars == <<pc, op, arg, ret, loc, dcalls, mem, prev>>

---------------------------------------------------------------------------
(* IEEE numbers *)

NaN == -2000000003
PInf == 2000000001
NInf == -2000000001

IsNaN(x) == x = NaN
IsInf(x) == x = PInf \/ x = NInf
IsNum(x) == ~IsNaN(x) /\ ~IsInf(x)

Sign(x) == IF x > 0 THEN 1 ELSE IF x < 0 THEN -1 ELSE 0

AbsInt(n) == IF n < 0 THEN -n ELSE n

\* the integer nearest to a / b, for b # 0
RoundDiv(a, b) ==
    Sign(a) * Sign(b) * ((2 * AbsInt(a) + AbsInt(b)) \div (2 * AbsInt(b)))

Neg(x) == IF IsNaN(x) THEN NaN
          ELSE IF x = PInf THEN NInf
          ELSE IF x = NInf THEN PInf
          ELSE -x

Add(x, y) ==
    IF IsNaN(x) \/ IsNaN(y) THEN NaN
    ELSE IF IsInf(x) /\ IsInf(y) THEN (IF x = y THEN x ELSE NaN)
    ELSE IF IsInf(x) THEN x
    ELSE IF IsInf(y) THEN y
    ELSE x + y

Sub(x, y) == Add(x, Neg(y))

Mul(x, y) ==
    IF IsNaN(x) \/ IsNaN(y) THEN NaN
    ELSE IF IsInf(x) \/ IsInf(y)
         THEN (IF x = 0 \/ y = 0 THEN NaN
               ELSE IF Sign(x) * Sign(y) > 0 THEN PInf ELSE NInf)
    ELSE x * y

Div(x, y) ==
    IF IsNaN(x) \/ IsNaN(y) THEN NaN
    ELSE IF IsInf(x) /\ IsInf(y) THEN NaN
    ELSE IF IsInf(x) THEN (IF Sign(x) * Sign(y) >= 0 THEN PInf ELSE NInf)
    ELSE IF IsInf(y) THEN 0
    ELSE IF y = 0 THEN (IF x = 0 THEN NaN ELSE IF x > 0 THEN PInf ELSE NInf)
    ELSE RoundDiv(x, y)

\* comparisons: any comparison with NaN is False
Gt(x, y) == ~IsNaN(x) /\ ~IsNaN(y) /\ x > y
Lt(x, y) == ~IsNaN(x) /\ ~IsNaN(y) /\ x < y
Eq(x, y) == ~IsNaN(x) /\ ~IsNaN(y) /\ x = y

\* np.abs
Abs(x) == IF IsNaN(x) THEN NaN ELSE IF IsInf(x) THEN PInf ELSE AbsInt(x)

\* np.double of a boolean
Double(b) == IF b THEN 1 ELSE 0

RECURSIVE ISqrtBetween(_, _, _)
ISqrtBetween(n, lo, hi) ==
    IF lo >= hi THEN lo
    ELSE LET mid == (lo + hi + 1) \div 2
         IN  IF mid * mid <= n THEN ISqrtBetween(n, mid, hi)
             ELSE ISqrtBetween(n, lo, mid - 1)

\* np.sqrt, to the nearest integer
Sqrt(x) ==
    IF IsNaN(x) THEN NaN
    ELSE IF x = PInf THEN PInf
    ELSE IF x < 0 THEN NaN
    ELSE LET r == ISqrtBetween(x, 0, IF x < 46340 THEN x ELSE 46340)
         IN  IF x - r * r > r THEN r + 1 ELSE r

---------------------------------------------------------------------------
(* Trigonometry, by a table of cosines of whole degrees, times 10000 *)

CosTab == <<
    10000, 9998, 9994, 9986, 9976, 9962, 9945, 9925, 9903, 9877,
    9848, 9816, 9781, 9744, 9703, 9659, 9613, 9563, 9511, 9455,
    9397, 9336, 9272, 9205, 9135, 9063, 8988, 8910, 8829, 8746,
    8660, 8572, 8480, 8387, 8290, 8192, 8090, 7986, 7880, 7771,
    7660, 7547, 7431, 7314, 7193, 7071, 6947, 6820, 6691, 6561,
    6428, 6293, 6157, 6018, 5878, 5736, 5592, 5446, 5299, 5150,
    5000, 4848, 4695, 4540, 4384, 4226, 4067, 3907, 3746, 3584,
    3420, 3256, 3090, 2924, 2756, 2588, 2419, 2250, 2079, 1908,
    1736, 1564, 1392, 1219, 1045, 872, 698, 523, 349, 175,
    0 >>

\* the scale of the values of Cos and Sin: Cos(a) / TrigOne is the cosine
TrigOne == CosTab[1]

\* cosine of t tenths of a degree, 0 <= t <= 900, interpolated in the table
CosFirst(t) ==
    LET d == t \div 10
        f == t % 10
    IN  IF f = 0 THEN CosTab[d + 1]
        ELSE RoundDiv(CosTab[d + 1] * (10 - f) + CosTab[d + 2] * f, 10)

\* np.cos of an angle in tenths of a degree
Cos(a) ==
    IF ~IsNum(a) THEN NaN
    ELSE LET t == a % 3600
             h == IF t > 1800 THEN 3600 - t ELSE t
         IN  IF h <= 900 THEN CosFirst(h) ELSE -CosFirst(1800 - h)

\* np.sin
Sin(a) == IF ~IsNum(a) THEN NaN ELSE Cos(a - 900)

\* np.arccos of c / TrigOne for -TrigOne <= c <= TrigOne, in tenths of a degree
ArcCos(c) ==
    IF IsNaN(c) THEN NaN
    ELSE IF c < 0 - TrigOne \/ c > TrigOne THEN NaN
    ELSE LET m == AbsInt(c)
             d == CHOOSE k \in 0..89 : CosTab[k + 1] >= m /\ m >= CosTab[k + 2]
             t == 10 * d + RoundDiv(10 * (CosTab[d + 1] - m),
                                    CosTab[d + 1] - CosTab[d + 2])
         IN  IF c >= 0 THEN t ELSE 1800 - t

\* np.arctan2(y, x), in tenths of a degree, in [-1800, 1800]; small vectors
\* are scaled up before the root is taken, to keep the direction
ArcTan2(y, x) ==
    IF IsNaN(y) \/ IsNaN(x) THEN NaN
    ELSE IF x = 0 /\ y = 0 THEN 0
    ELSE LET x1 == IF IsInf(x) THEN Sign(x) ELSE IF IsInf(y) THEN 0 ELSE x
             y1 == IF IsInf(y) THEN Sign(y) ELSE IF IsInf(x) THEN 0 ELSE y
             s == IF AbsInt(x1) < 300 /\ AbsInt(y1) < 300 THEN 100 ELSE 1
             r == Sqrt(s * x1 * s * x1 + s * y1 * s * y1)
             a == ArcCos(RoundDiv(TrigOne * s * x1, IF r = 0 THEN 1 ELSE r))
             b == IF IsNaN(a) THEN (IF x1 > 0 THEN 0 ELSE 1800) ELSE a
         IN  IF Sign(y) < 0 THEN -b ELSE b

---------------------------------------------------------------------------
(* Grids *)

NRows(g) == Len(g)
NCols(g) == Len(g[1])
Shape(g) == <<NRows(g), NCols(g)>>

\* the grid of shape <<r, c>> whose cell (i, j) is f[<<i, j>>]
MkGrid(r, c, f(_, _)) == [i \in 1..r |-> [j \in 1..c |-> f(i, j)]]

\* one operation applied cell by cell to grids of one shape
Map1(f(_), a) == MkGrid(NRows(a), NCols(a), LAMBDA i, j : f(a[i][j]))
Map2(f(_, _), a, b) ==
    MkGrid(NRows(a), NCols(a), LAMBDA i, j : f(a[i][j], b[i][j]))

Cells(g) == {<<i, j>> : i \in 1..NRows(g), j \in 1..NCols(g)}

---------------------------------------------------------------------------
(* Grid geometry *)

\* four_corner_shift: up and down are padded with NaN, left and right are
\* rolled by one column whatever shift_len is
four_corner_shift(arr, shift_len) ==
    LET r == NRows(arr)
        c == NCols(arr)
    IN  [up    |-> MkGrid(r, c, LAMBDA i, j :
                       IF i - shift_len >= 1 THEN arr[i - shift_len][j] ELSE NaN),
         down  |-> MkGrid(r, c, LAMBDA i, j :
                       IF i + shift_len <= r THEN arr[i + shift_len][j] ELSE NaN),
         left  |-> MkGrid(r, c, LAMBDA i, j : arr[i][(j % c) + 1]),
         right |-> MkGrid(r, c, LAMBDA i, j : arr[i][((j - 2) % c) + 1])]

\* lon_left[:, -1] = lon_left[:, -1] + 360
SeamLeft(lon_left) ==
    MkGrid(NRows(lon_left), NCols(lon_left), LAMBDA i, j :
        IF j = NCols(lon_left) THEN Add(lon_left[i][j], 360) ELSE lon_left[i][j])

\* lon_right[:, 0] = lon_right[:, 0] - 360
SeamRight(lon_right) ==
    MkGrid(NRows(lon_right), NCols(lon_right), LAMBDA i, j :
        IF j = 1 THEN Sub(lon_right[i][j], 360) ELSE lon_right[i][j])

\* R_earth * pi / 1800: the metres of one tenth of a degree of arc
MetresPerTenth == 11132

\* dist_between_grids at one cell; latitudes and longitudes in degrees
DistCell(lat0, lon0, lat1, lon1) ==
    LET s0 == Sin(Mul(10, lat0))
        s1 == Sin(Mul(10, lat1))
        c0 == Cos(Mul(10, lat0))
        c1 == Cos(Mul(10, lat1))
        cd == Cos(Mul(10, Sub(lon1, lon0)))
        cosc == Add(Div(Mul(s0, s1), TrigOne),
                    Div(Mul(Div(Mul(c0, c1), TrigOne), cd), TrigOne))
        clamped == IF Lt(cosc, 0 - TrigOne) THEN 0 - TrigOne
                   ELSE IF Gt(cosc, TrigOne) THEN TrigOne ELSE cosc
    IN  Div(Mul(ArcCos(clamped), MetresPerTenth), 100000)

dist_between_grids(lat0, lon0, lat1, lon1) ==
    MkGrid(NRows(lat0), NCols(lat0), LAMBDA i, j :
        DistCell(lat0[i][j], lon0[i][j], lat1[i][j], lon1[i][j]))

---------------------------------------------------------------------------
(* Differential operators *)

\* the seam-corrected copies of the longitude grid geo_gradient works on
GradLonLeft(lon) == SeamLeft(four_corner_shift(lon, 1).left)
GradLonRight(lon) == SeamRight(four_corner_shift(lon, 1).right)

geo_gradient(lat, lon, data) ==
    LET d == four_corner_shift(data, 1)
        la == four_corner_shift(lat, 1)
        lo == four_corner_shift(lon, 1)
        lon_left == GradLonLeft(lon)
        lon_right == GradLonRight(lon)
        dy1 == dist_between_grids(la.down, lo.down, lat, lon)
        dy2 == dist_between_grids(la.up, lo.up, lat, lon)
        dy1_data == Map2(Sub, d.down, data)
        dy2_data == Map2(Sub, data, d.up)
        dx1 == dist_between_grids(la.left, lon_left, lat, lon)
        dx2 == dist_between_grids(lat, lon, la.right, lon_right)
        dx1_data == Map2(Sub, d.left, data)
        dx2_data == Map2(Sub, data, d.right)
    IN  [dx |-> Map2(Div, Map2(Add, dx2_data, dx1_data), Map2(Add, dx1, dx2)),
         dy |-> Map2(Div, Map2(Add, dy2_data, dy1_data), Map2(Add, dy1, dy2))]

\* the dist_between_grids calls of geo_gradient, by source line
GradDistCalls(lat, lon) ==
    LET lo == four_corner_shift(lon, 1)
    IN  <<[site |-> 490, lon0 |-> lo.down, lon1 |-> lon],
          [site |-> 491, lon0 |-> lo.up, lon1 |-> lon],
          [site |-> 496, lon0 |-> GradLonLeft(lon), lon1 |-> lon],
          [site |-> 497, lon0 |-> lon, lon1 |-> GradLonRight(lon)]>>

norm(x, y) == Map2(LAMBDA a, b : Sqrt(Add(Mul(a, a), Mul(b, b))), x, y)

\* np.nansum of five numbers
NanSum5(a, b, c, d, e) ==
    LET z(x) == IF IsNaN(x) THEN 0 ELSE x
    IN  Add(Add(Add(Add(z(a), z(b)), z(c)), z(d)), z(e))

\* A variant of the pass that divides wherever it summed, as lines 322-323
\* did: outGrid = outGrid_num / cnts, without cnt_ind
SmoothPassUnguarded(outGrid, center_weight) ==
    LET s == four_corner_shift(outGrid, 1)
        v(x) == Double(~IsNaN(x))
        cnts(i, j) == v(s.right[i][j]) + v(s.left[i][j]) + v(s.up[i][j])
                      + v(s.down[i][j]) + v(outGrid[i][j]) * center_weight
        num(i, j) == NanSum5(Mul(outGrid[i][j], center_weight), s.right[i][j],
                             s.left[i][j], s.up[i][j], s.down[i][j])
    IN  MkGrid(NRows(outGrid), NCols(outGrid), LAMBDA i, j :
            Div(num(i, j), cnts(i, j)))

\* one pass of the loop of smooth_grid
SmoothPass(outGrid, center_weight) ==
    LET s == four_corner_shift(outGrid, 1)
        v(x) == Double(~IsNaN(x))
        cnts(i, j) == v(s.right[i][j]) + v(s.left[i][j]) + v(s.up[i][j])
                      + v(s.down[i][j]) + v(outGrid[i][j]) * center_weight
        num(i, j) == NanSum5(Mul(outGrid[i][j], center_weight), s.right[i][j],
                             s.left[i][j], s.up[i][j], s.down[i][j])
    IN  MkGrid(NRows(outGrid), NCols(outGrid), LAMBDA i, j :
            IF cnts(i, j) # 0 THEN Div(num(i, j), cnts(i, j)) ELSE outGrid[i][j])

RECURSIVE smooth_grid(_, _, _)
smooth_grid(inGrid, iter, center_weight) ==
    IF iter <= 0 THEN inGrid
    ELSE SmoothPass(smooth_grid(inGrid, iter - 1, center_weight), center_weight)

---------------------------------------------------------------------------
(* Contour rasterizer *)

\* A point of the grid is usable by the contouring if its value is finite
\* (plt.contour masks the invalid values), and is above the level 0 if > 0.
Valid(z) == IsNum(z)
Above(z) == Valid(z) /\ z > 0

\* The sides of the grid's quads along which plt.contour interpolates: the
\* four sides of a quad whose corners are all valid and, for a quad with
\* one invalid corner, the three sides of the triangle of the other three.
QuadEdges(data, i, j) ==
    LET K == {<<i, j>>, <<i + 1, j>>, <<i, j + 1>>, <<i + 1, j + 1>>}
        bad == {c \in K : ~Valid(data[c[1]][c[2]])}
        side(p, q) == (p[1] = q[1]) # (p[2] = q[2])
    IN  IF bad = {}
        THEN {<<p, q>> \in K \X K : side(p, q)}
        ELSE IF Cardinality(bad) = 1
        THEN {<<p, q>> \in (K \ bad) \X (K \ bad) : p # q}
        ELSE {}

\* a vertex coordinate: the fraction <<n, d>> with d > 0
Frac(n, d) == IF d < 0 THEN <<-n, -d>> ELSE <<n, d>>

\* The vertices of the zero isoline: one on every side whose end points are
\* on different sides of the level, at the linearly interpolated place.
\* The x coordinates are read from the first grid passed to plt.contour
\* (latGrid), the y coordinates from the second (lonGrid).
ContourVertices(latGrid, lonGrid, data) ==
    LET E == UNION {QuadEdges(data, i, j) :
                        i \in 1..(NRows(data) - 1), j \in 1..(NCols(data) - 1)}
        z(p) == data[p[1]][p[2]]
        at(g, p, q) == Frac(g[p[1]][p[2]] * z(q) - g[q[1]][q[2]] * z(p),
                            z(q) - z(p))
    IN  {[x |-> at(latGrid, e[1], e[2]), y |-> at(lonGrid, e[1], e[2])] :
            e \in {e \in E : Above(z(e[1])) /\ ~Above(z(e[2]))}}

\* The bin edges of mask_zero_contour, doubled to stay whole: the centres
\* less half the first spacing, and one more edge half a spacing after the
\* last of these.
BinEdges2(centres) ==
    LET n == Len(centres)
        div == centres[2] - centres[1]
    IN  [k \in 1..(n + 1) |->
            IF k <= n THEN 2 * centres[k] - div ELSE 2 * centres[n]]

Increasing(edges) ==
    \A k \in 1..(Len(edges) - 1) : edges[k] <= edges[k + 1]

\* np.histogram2d's bin k of the doubled edges holds the fraction v
InBin(v, edges2, k) ==
    /\ edges2[k] * v[2] <= 2 * v[1]
    /\ \/ 2 * v[1] < edges2[k + 1] * v[2]
       \/ k = Len(edges2) - 1 /\ 2 * v[1] = edges2[k + 1] * v[2]

\* mask_zero_contour: [status |-> "ok", out |-> the mask], or the error raised.
\* With no vertex at all cdt stays the one-dimensional empty array and
\* cdt[:, 0] raises; bin edges that decrease are refused by np.histogram2d.
mask_zero_contour(latGrid, lonGrid, data) ==
    IF NRows(data) < 2 \/ NCols(data) < 2
    THEN [status |-> "error", error |-> "TypeError"]
    ELSE LET cdt == ContourVertices(latGrid, lonGrid, data)
             lat_edges == BinEdges2([i \in 1..NRows(latGrid) |-> latGrid[i][1]])
             lon_edges == BinEdges2(lonGrid[1])
         IN  IF cdt = {}
             THEN [status |-> "error", error |-> "IndexError"]
             ELSE IF ~(Increasing(lat_edges) /\ Increasing(lon_edges))
             THEN [status |-> "error", error |-> "ValueError"]
             ELSE [status |-> "ok",
                   out |-> MkGrid(NRows(data), NCols(data), LAMBDA i, j :
                       Double(\E v \in cdt : /\ InBin(v.x, lat_edges, i)
                                             /\ InBin(v.y, lon_edges, j)))]

---------------------------------------------------------------------------
(* Wind-shift detector *)

\* numpy broadcasting of two-dimensional grids: every axis on which two
\* grids differ must have length 1 in one of them
Broadcastable(gs) ==
    \A a \in gs, b \in gs :
        /\ NRows(a) = NRows(b) \/ NRows(a) = 1 \/ NRows(b) = 1
        /\ NCols(a) = NCols(b) \/ NCols(a) = 1 \/ NCols(b) = 1

Max(S) == CHOOSE m \in S : \A n \in S : n <= m

BroadcastShape(gs) == <<Max({NRows(g) : g \in gs}), Max({NCols(g) : g \in gs})>>

\* cell (i, j) of g as broadcast to a larger shape
At(g, i, j) == g[IF NRows(g) = 1 THEN 1 ELSE i][IF NCols(g) = 1 THEN 1 ELSE j]

\* wind_thres = 2. m/s, in units of 0.5 m/s
wind_thres == 4

\* Variants of cond, against which the properties of the wind-shift detector
\* are tested: the threshold reached rather than exceeded ...
SimmondsCondAtLeast(lat, u_prior, v_prior, u, v) ==
    LET mag_diff == Abs(Sub(Abs(v), Abs(v_prior)))
    IN  /\ Gt(u, 0)
        /\ Gt(u_prior, 0)
        /\ \/ Gt(v, 0) /\ Lt(lat, 0)
           \/ Lt(v, 0) /\ Gt(lat, 0)
        /\ Lt(Mul(v, v_prior), 0)
        /\ ~Lt(mag_diff, wind_thres) /\ ~IsNaN(mag_diff)
        /\ Lt(Abs(lat), 80)

\* ... and the change of v itself in place of the change of its magnitude,
\* in either hemisphere
SimmondsCondChange(lat, u_prior, v_prior, u, v) ==
    LET mag_diff == Abs(Sub(v, v_prior))
    IN  /\ Gt(u, 0)
        /\ Gt(u_prior, 0)
        /\ Lt(Mul(v, v_prior), 0)
        /\ Gt(mag_diff, wind_thres)
        /\ Lt(Abs(lat), 80)

\* cond of simmonds_et_al_2012 at one cell
SimmondsCond(lat, u_prior, v_prior, u, v) ==
    LET mag_diff == Abs(Sub(Abs(v), Abs(v_prior)))
    IN  /\ Gt(u, 0)
        /\ Gt(u_prior, 0)
        /\ \/ Gt(v, 0) /\ Lt(lat, 0)
           \/ Lt(v, 0) /\ Gt(lat, 0)
        /\ Lt(Mul(v, v_prior), 0)
        /\ Gt(mag_diff, wind_thres)
        /\ Lt(Abs(lat), 80)

\* simmonds_et_al_2012: lonGrid is not read
simmonds_et_al_2012(latGrid, lonGrid, u_prior, v_prior, u, v) ==
    LET gs == {latGrid, u_prior, v_prior, u, v}
        sh == BroadcastShape(gs)
    IN  IF ~Broadcastable(gs)
        THEN [status |-> "error", error |-> "ValueError"]
        ELSE [status |-> "ok",
              cf |-> MkGrid(sh[1], sh[2], LAMBDA i, j :
                  Double(SimmondsCond(At(latGrid, i, j), At(u_prior, i, j),
                                      At(v_prior, i, j), At(u, i, j),
                                      At(v, i, j))))]

---------------------------------------------------------------------------
(* Thermal-front detector: hewson_1998, a stage at a time.  Each stage     *)
(* reads the arguments a and the locals l computed so far and gives the    *)
(* locals it assigns.                                                      *)

\* k1 = 0.33e-10 in units of 1e-12, k2 = 1.49e-5 in units of 1e-7
k1 == 33
k2 == 149

\* 1 / np.sqrt(2), times TrigOne
InvSqrt2 == 7071

\* 9.8 / (2 * omega), omega = 7.3e-5, in units of 0.1
GravityOver2Omega == 671233

\* x times a cosine or sine c (a value of Cos or Sin)
MulTrig(x, c) == Div(Mul(x, c), TrigOne)

\* lines 48-49
HewsonTheta(a) ==
    LET g == geo_gradient(a.latGrid, a.lonGrid, a.theta)
    IN  [gx |-> g.dx, gy |-> g.dy, gNorm |-> norm(g.dx, g.dy)]

\* lines 50-52
HewsonMu(a, l) ==
    LET g == geo_gradient(a.latGrid, a.lonGrid, l.gNorm)
    IN  [mux |-> g.dx, muy |-> g.dy, abs_mu |-> norm(g.dx, g.dy)]

\* lines 53-64
HewsonMasks(a, l) ==
    LET g == geo_gradient(a.latGrid, a.lonGrid, l.abs_mu)
        product == Map2(Add, Map2(Mul, l.mux, l.gx), Map2(Mul, l.muy, l.gy))
        product_smooth == smooth_grid(product, 1, 1)
        m1 == Map2(Div, Map1(LAMBDA x : Mul(-1, x), product_smooth), l.gNorm)
        m2 == Map2(LAMBDA n, m : Add(n, MulTrig(m, InvSqrt2)), l.gNorm, l.abs_mu)
    IN  [grad_abs_mux |-> g.dx, grad_abs_muy |-> g.dy,
         m1 |-> m1, m2 |-> m2,
         m1_mask |-> Map1(LAMBDA x : Gt(x, k1), m1),
         m2_mask |-> Map1(LAMBDA x : Gt(x, k2), m2)]

\* lines 71-74: the angle of mu at one cell
MuAng(mux, muy) ==
    IF Eq(muy, 0) THEN 0
    ELSE IF Eq(mux, 0) /\ Lt(muy, 0) THEN 2700
    ELSE IF Eq(mux, 0) /\ Gt(muy, 0) THEN 900
    ELSE ArcTan2(muy, mux)

\* lines 67-89
HewsonBeta(a, l) ==
    LET mu_mag == l.abs_mu
        mu_ang == Map2(MuAng, l.mux, l.muy)
        sa == four_corner_shift(mu_ang, 1)
        sm == four_corner_shift(mu_mag, 1)
        p(m, t) == MulTrig(m, Cos(Mul(2, t)))
        q(m, t) == MulTrig(m, Sin(Mul(2, t)))
        sump == MkGrid(NRows(mu_ang), NCols(mu_ang), LAMBDA i, j :
                    NanSum5(p(mu_mag[i][j], mu_ang[i][j]),
                            p(sm.up[i][j], sa.up[i][j]),
                            p(sm.down[i][j], sa.down[i][j]),
                            p(sm.right[i][j], sa.right[i][j]),
                            p(sm.left[i][j], sa.left[i][j])))
        sumq == MkGrid(NRows(mu_ang), NCols(mu_ang), LAMBDA i, j :
                    NanSum5(q(mu_mag[i][j], mu_ang[i][j]),
                            q(sm.up[i][j], sa.up[i][j]),
                            q(sm.down[i][j], sa.down[i][j]),
                            q(sm.right[i][j], sa.right[i][j]),
                            q(sm.left[i][j], sa.left[i][j])))
    IN  [mu_ang |-> mu_ang,
         betamean |-> Map2(LAMBDA y, x : Div(ArcTan2(y, x), 2), sumq, sump)]

\* lines 94-100: the shifted copies, the longitudes seam-corrected
HewsonShifts(a, l) ==
    LET la == four_corner_shift(a.latGrid, 1)
        lo == four_corner_shift(a.lonGrid, 1)
    IN  [s_mux |-> four_corner_shift(l.mux, 1),
         s_muy |-> four_corner_shift(l.muy, 1),
         s_lat |-> la,
         s_lon |-> [up |-> lo.up, down |-> lo.down,
                    left |-> SeamLeft(lo.left), right |-> SeamRight(lo.right)]]

\* lines 102-114
HewsonTotDiv(a, l) ==
    LET dy == dist_between_grids(l.s_lat.up, l.s_lon.up,
                                 l.s_lat.down, l.s_lon.down)
        dx == dist_between_grids(l.s_lat.left, l.s_lon.left,
                                 l.s_lat.right, l.s_lon.right)
        cb == Map1(Cos, l.betamean)
        sb == Map1(Sin, l.betamean)
        prime(x, y) == Map2(Add, Map2(MulTrig, x, cb), Map2(MulTrig, y, sb))
        down_prime == prime(l.s_mux.down, l.s_muy.down)
        up_prime == prime(l.s_mux.up, l.s_muy.up)
        left_prime == prime(l.s_mux.left, l.s_muy.left)
        right_prime == prime(l.s_mux.right, l.s_muy.right)
    IN  [tot_div |->
            Map2(Add,
                 Map2(Div, Map2(MulTrig, Map2(Sub, down_prime, up_prime), sb), dy),
                 Map2(Div, Map2(MulTrig, Map2(Sub, left_prime, right_prime), cb), dx))]

\* the dist_between_grids calls of lines 102-103
HewsonTotDivDistCalls(l) ==
    <<[site |-> 102, lon0 |-> l.s_lon.up, lon1 |-> l.s_lon.down],
      [site |-> 103, lon0 |-> l.s_lon.left, lon1 |-> l.s_lon.right]>>

\* A variant of lines 116-118 without line 118, against which the thresholds
\* of the thermal detector are tested
HewsonContourUnmasked(a, l) ==
    LET zc == mask_zero_contour(a.latGrid, a.lonGrid, l.tot_div)
    IN  IF zc.status # "ok" THEN zc
        ELSE [status |-> "ok", zc_6 |-> zc.out]

\* lines 116-118: the contour's result, and zc_6 when it returned
HewsonContour(a, l) ==
    LET zc == mask_zero_contour(a.latGrid, a.lonGrid, l.tot_div)
    IN  IF zc.status # "ok" THEN zc
        ELSE [status |-> "ok",
              zc_6 |-> MkGrid(NRows(zc.out), NCols(zc.out), LAMBDA i, j :
                  IF ~(l.m1_mask[i][j] /\ l.m2_mask[i][j]) THEN 0
                  ELSE zc.out[i][j])]

\* A variant of rot_param without lines 140-141, against which the latitude
\* limits are tested
RotParamUnmasked(lat) == Div(GravityOver2Omega, Sin(Mul(10, lat)))

\* lines 137-141: rot_param at one cell
RotParam(lat) ==
    IF Gt(Abs(lat), 70) \/ Lt(Abs(lat), 20) THEN NaN
    ELSE Div(GravityOver2Omega, Sin(Mul(10, lat)))

\* lines 143-145: the copies shifted anew, the longitudes as rolled
HewsonWindShifts(a) ==
    [s_H850 |-> four_corner_shift(a.H850, 1),
     s_lat |-> four_corner_shift(a.latGrid, 1),
     s_lon |-> four_corner_shift(a.lonGrid, 1)]

\* lines 137-154
HewsonWind(a, l) ==
    LET s == HewsonWindShifts(a)
        rot_param == Map1(RotParam, a.latGrid)
        dz_y == Map2(Sub, s.s_H850.down, s.s_H850.up)
        dy == dist_between_grids(s.s_lat.up, s.s_lon.up,
                                 s.s_lat.down, s.s_lon.down)
        dz_x == Map2(Sub, s.s_H850.left, s.s_H850.right)
        dx == dist_between_grids(s.s_lat.left, s.s_lon.left,
                                 s.s_lat.right, s.s_lon.right)
    IN  [rot_param |-> rot_param,
         s_H850 |-> s.s_H850, s_lat |-> s.s_lat, s_lon |-> s.s_lon,
         Vy |-> Map2(Mul, rot_param, Map2(Div, dz_y, dy)),
         Vx |-> Map2(Mul, rot_param, Map2(Div, dz_x, dx))]

\* the dist_between_grids calls of lines 148 and 151
HewsonWindDistCalls(a) ==
    LET s == HewsonWindShifts(a)
    IN  <<[site |-> 148, lon0 |-> s.s_lon.up, lon1 |-> s.s_lon.down],
          [site |-> 151, lon0 |-> s.s_lon.left, lon1 |-> s.s_lon.right]>>

\* A variant of lines 156-164 in which the cold mask is the complement of
\* the warm one: cf_mask = np.double(~(gta > 0))
HewsonAdvectionComplement(a, l) ==
    LET vgx == Map2(Mul, Map1(Neg, l.Vx), l.gx)
        vgy == Map2(Mul, Map1(Neg, l.Vy), l.gy)
        gta == Map2(Add, vgx, vgy)
    IN  [gta |-> gta,
         wf_mask |-> Map1(LAMBDA x : Double(Gt(x, 0)), gta),
         cf_mask |-> Map1(LAMBDA x : Double(~Gt(x, 0)), gta)]

\* lines 156-164
HewsonAdvection(a, l) ==
    LET vgx == Map2(Mul, Map1(Neg, l.Vx), l.gx)
        vgy == Map2(Mul, Map1(Neg, l.Vy), l.gy)
        gta == Map2(Add, vgx, vgy)
    IN  [gta |-> gta,
         wf_mask |-> Map1(LAMBDA x : Double(Gt(x, 0)), gta),
         cf_mask |-> Map1(LAMBDA x : Double(Lt(x, 0)), gta)]

\* line 167: what hewson_1998 returns
HewsonReturn(l) ==
    [status |-> "ok",
     wf |-> Map2(Mul, l.wf_mask, l.zc_6),
     cf |-> Map2(Mul, l.cf_mask, l.zc_6),
     eq6 |-> l.tot_div]

---------------------------------------------------------------------------
(* The inputs the operations are called with *)

\* the largest grid of the calls of the grid operations
MaxRows == 3
MaxCols == 3
\* the grid of the calls of hewson_1998: tot_div is defined from row 4 to
\* row HRows - 3, whatever the inputs
HRows == 8
HCols == 3
\* the largest shift_len, iter and center_weight
MaxShift == 2
MaxIter == 2
MaxWeight == 4
\* the largest wind speed, in units of 0.5 m/s
MaxWind == 6
\* the largest slope of a linear field
MaxSlope == 2

\* a regular mesh: the latitude depends on the row, the longitude on the column
LatGrid(r, c, lat0, dlat) == MkGrid(r, c, LAMBDA i, j : lat0 + (i - 1) * dlat)
LonGrid(r, c, lon0, dlon) == MkGrid(r, c, LAMBDA i, j : lon0 + (j - 1) * dlon)

\* g with the cell hole missing; hole = <<0, 0>> leaves g whole
WithHole(g, hole) ==
    MkGrid(NRows(g), NCols(g), LAMBDA i, j :
        IF <<i, j>> = hole THEN NaN ELSE g[i][j])

\* the field a * i + b * j + k
Plane(r, c, a, b, k) == MkGrid(r, c, LAMBDA i, j : a * i + b * j + k)

\* the distance along the column from row 1 to row i, and along the row
\* from column 1 to column j
RECURSIVE YDist(_, _, _)
YDist(lat, lon, i) ==
    IF i <= 1 THEN 0
    ELSE YDist(lat, lon, i - 1)
         + DistCell(lat[i - 1][1], lon[i - 1][1], lat[i][1], lon[i][1])
RECURSIVE XDist(_, _, _, _)
XDist(lat, lon, i, j) ==
    IF j <= 1 THEN 0
    ELSE XDist(lat, lon, i, j - 1)
         + DistCell(lat[i][j - 1], lon[i][j - 1], lat[i][j], lon[i][j])

\* the field of slope sx along the rows and sy along the columns
LinearField(lat, lon, sx, sy) ==
    MkGrid(NRows(lat), NCols(lat), LAMBDA i, j :
        sx * XDist(lat, lon, i, j) + sy * YDist(lat, lon, i))

ShiftInputs ==
    {[arr |-> WithHole(Plane(r, c, 10, 1, 0), h), shift_len |-> k] :
        r \in 1..MaxRows, c \in 2..MaxCols, h \in {<<0, 0>>, <<1, 1>>},
        k \in 1..MaxShift}

SmoothInputs ==
    {[inGrid |-> WithHole(Plane(r, c, a, 0, k), h), iter |-> n,
      center_weight |-> w] :
        r \in 1..MaxRows, c \in {MaxCols}, a \in {0, 3}, k \in {-2, 0, 7},
        h \in {<<0, 0>>, <<2, 2>>}, n \in 0..MaxIter,
        w \in (0 - MaxWeight)..MaxWeight}

GradientInputs ==
    {[lat |-> LatGrid(r, c, lat0, 10), lon |-> LonGrid(r, c, lon0, dlon),
      data |-> WithHole(LinearField(LatGrid(r, c, lat0, 10),
                                    LonGrid(r, c, lon0, dlon), sx, sy), h)] :
        r \in {MaxRows}, c \in {MaxCols}, lat0 \in {-10, 30},
        lon0 \in {0, 170}, dlon \in {10, 360 \div MaxCols},
        sx \in (0 - MaxSlope)..MaxSlope, sy \in (0 - MaxSlope)..MaxSlope,
        h \in {<<0, 0>>, <<2, 2>>}}

ContourInputs ==
    {[latGrid |-> LatGrid(r, c, lat0, dlat), lonGrid |-> LonGrid(r, c, 0, 10),
      data |-> WithHole(Plane(r, c, a, b, k), h)] :
        r \in 2..MaxRows, c \in 2..MaxCols, lat0 \in {30}, dlat \in {10, -10},
        a \in -1..1, b \in -1..1, k \in -3..3,
        h \in {<<0, 0>>, <<1, 1>>}}

\* a grid of shape sh holding x in its first row and y in the others
TwoRows(sh, x, y) == MkGrid(sh[1], sh[2], LAMBDA i, j : IF i = 1 THEN x ELSE y)

WindShapes == {<<1, 1>>, <<1, 2>>, <<2, 2>>, <<2, 3>>}
WindSpeeds == ((0 - MaxWind)..MaxWind) \cup {NaN}
WindLats == {-80, -79, 0, 10, 79, 80, NaN}

\* one cell with every combination of values, and grids of every
\* combination of shapes
WindInputs ==
    {[latGrid |-> <<<<lat>>>>, lonGrid |-> <<<<lon>>>>, u_prior |-> <<<<up>>>>,
      v_prior |-> <<<<vp>>>>, u |-> <<<<u>>>>, v |-> <<<<v>>>>] :
        lat \in WindLats, lon \in {0, 190}, up \in {-2, 0, 2, NaN},
        vp \in WindSpeeds, u \in {-2, 0, 2, NaN}, v \in WindSpeeds}
    \cup
    {[latGrid |-> TwoRows(sl, 10, -10), lonGrid |-> TwoRows(so, 0, 0),
      u_prior |-> TwoRows(sw, 2, 2), v_prior |-> TwoRows(sw, 1, -1),
      u |-> TwoRows(su, 2, 2), v |-> TwoRows(sw, -6, 6)] :
        sl \in WindShapes, so \in WindShapes, su \in WindShapes,
        sw \in WindShapes}

\* The gradient of theta along the columns, row by row: steep south of the
\* front, falling over the rows 4 and 5 (amp = 0: the same in every row)
FrontGradient(i, base, amp) ==
    base + amp * (IF i <= 3 THEN 5500
                  ELSE IF i = 4 THEN 3300
                  ELSE IF i = 5 THEN 1100 ELSE 0)

\* theta in row i, whose centred differences are that gradient
RECURSIVE ThetaRow(_, _, _, _, _)
ThetaRow(lat, lon, i, base, amp) ==
    IF i <= 1 THEN 0
    ELSE IF i = 2 THEN YDist(lat, lon, 2) * FrontGradient(1, base, amp)
    ELSE ThetaRow(lat, lon, i - 2, base, amp)
         + (YDist(lat, lon, i) - YDist(lat, lon, i - 2))
           * FrontGradient(i - 1, base, amp)

ThetaField(lat, lon, base, amp, sign) ==
    MkGrid(NRows(lat), NCols(lat), LAMBDA i, j :
        sign * ThetaRow(lat, lon, i, base, amp))

\* one call of hewson_1998: a mesh of 3 degrees of latitude from lat0 and
\* 10 degrees of longitude, theta with the cell th missing, and the height
\* H850 sloping by h, with the cell hh missing
HewsonInput(lat0, base, amp, sign, th, h, hh) ==
    [latGrid |-> LatGrid(HRows, HCols, lat0, 3),
     lonGrid |-> LonGrid(HRows, HCols, 10, 10),
     theta |-> WithHole(ThetaField(LatGrid(HRows, HCols, lat0, 3),
                                   LonGrid(HRows, HCols, 10, 10),
                                   base, amp, sign), th),
     H850 |-> WithHole(Plane(HRows, HCols, 50 * h, 100 * h, 0), hh)]

\* the latitudes of row 1 that put row 4 at -73, -70, -20, 17, 20, 70, 73
HewsonLats == {-82, -79, -29, 8, 11, 61, 64}

\* fronts at every latitude; fronts with missing cells; uniform gradients
HewsonInputs ==
    {HewsonInput(lat0, base, 1, sign, <<0, 0>>, h, <<0, 0>>) :
        lat0 \in HewsonLats, base \in {0, 100}, sign \in {-1, 1}, h \in -1..1}
    \cup
    {HewsonInput(11, 0, 1, sign, hole[1], h, hole[2]) :
        sign \in {-1, 1}, h \in {-1, 1},
        hole \in {<<<<4, 2>>, <<0, 0>>>>, <<<<0, 0>>, <<4, 2>>>>,
                  <<<<1, 1>>, <<0, 0>>>>}}
    \cup
    {HewsonInput(lat0, base, 0, sign, <<0, 0>>, 1, <<0, 0>>) :
        lat0 \in {11, 64}, base \in {0, 100, 200}, sign \in {-1, 1}}

---------------------------------------------------------------------------
(* The arrays in memory.  store is the sequence of the arrays made so far, *)
(* env the array each variable is bound to; the caller's arrays are the    *)
(* first of the store.  Kept in the memory are the caller's arrays and the *)
(* arrays the functions assign to in place, with the arrays those are made *)
(* from; an array made by arithmetic and only read is left out.            *)

\* the parameters of the operations, in the order of the def lines
Params(name) ==
    CASE name = "four_corner_shift" -> <<"arr", "shift_len">>
      [] name = "geo_gradient" -> <<"lat", "lon", "data">>
      [] name = "smooth_grid" -> <<"inGrid", "iter", "center_weight">>
      [] name = "mask_zero_contour" -> <<"latGrid", "lonGrid", "data">>
      [] name = "simmonds_et_al_2012" ->
             <<"latGrid", "lonGrid", "u_prior", "v_prior", "u", "v">>
      [] name = "hewson_1998" -> <<"latGrid", "lonGrid", "theta", "H850">>

\* the memory when the operation name is called with the arguments a
CallerMemory(name, a) ==
    LET ps == Params(name)
    IN  [env |-> [v \in {ps[k] : k \in 1..Len(ps)} |->
                     CHOOSE k \in 1..Len(ps) : ps[k] = v],
         store |-> [k \in 1..Len(ps) |-> a[ps[k]]]]

\* the caller's arguments as they are in the memory m
CallerArrays(name, m) ==
    LET ps == Params(name)
    IN  [v \in {ps[k] : k \in 1..Len(ps)} |->
            m.store[CHOOSE k \in 1..Len(ps) : ps[k] = v]]

\* the array the variable v is bound to
Load(m, v) == m.store[m.env[v]]

\* v = <an expression that makes a new array holding g>
NewArray(m, v, g) ==
    [env |-> (v :> (Len(m.store) + 1)) @@ m.env, store |-> Append(m.store, g)]

\* v = src, and the binding of a parameter v to the argument src: no copy
NpAlias(m, v, src) == [env |-> (v :> m.env[src]) @@ m.env, store |-> m.store]

\* v = np.copy(src)
NpCopy(m, v, src) == NewArray(m, v, Load(m, src))

\* v[...] = ...: the array v is bound to holds g afterwards
SetCells(m, v, g) ==
    [env |-> m.env, store |-> [m.store EXCEPT ![m.env[v]] = g]]

\* left = np.roll(arr, -1, axis=1), right = np.roll(arr, 1, axis=1) of
\* four_corner_shift(arr), returned to the variables left and right
RollsMem(m, arr, left, right) ==
    LET s == four_corner_shift(Load(m, arr), 1)
    IN  NewArray(NewArray(m, left, s.left), right, s.right)

\* geo_gradient(lat, lon, data) called with the variables la, lo, d:
\* lines 485-487
GeoGradientMem(m, la, lo, d) ==
    LET m1 == NpAlias(NpAlias(NpAlias(m, "lat", la), "lon", lo), "data", d)
        m2 == RollsMem(m1, "lon", "lon_left", "lon_right")
        m3 == SetCells(m2, "lon_left", SeamLeft(Load(m2, "lon_left")))
    IN  SetCells(m3, "lon_right", SeamRight(Load(m3, "lon_right")))

\* the loop of smooth_grid: line 327 assigns to outGrid in place
RECURSIVE SmoothLoopMem(_, _, _)
SmoothLoopMem(m, iter, center_weight) ==
    IF iter <= 0 THEN m
    ELSE LET m1 == SmoothLoopMem(m, iter - 1, center_weight)
         IN  SetCells(m1, "outGrid",
                      SmoothPass(Load(m1, "outGrid"), center_weight))

\* smooth_grid(inGrid, iter, center_weight) called with the variable g
SmoothGridMem(m, g, iter, center_weight) ==
    SmoothLoopMem(NpCopy(NpAlias(m, "inGrid", g), "outGrid", "inGrid"),
                  iter, center_weight)

\* hewson_1998, a stage at a time, with the locals l of the stage
HewsonThetaMem(m, l) ==
    GeoGradientMem(m, "latGrid", "lonGrid", "theta")

HewsonMuMem(m, l) ==
    GeoGradientMem(NewArray(m, "gNorm", l.gNorm), "latGrid", "lonGrid", "gNorm")

HewsonMasksMem(m, l) ==
    LET m1 == GeoGradientMem(NewArray(m, "abs_mu", l.abs_mu),
                             "latGrid", "lonGrid", "abs_mu")
        product == Map2(Add, Map2(Mul, l.mux, l.gx), Map2(Mul, l.muy, l.gy))
    IN  SmoothGridMem(NewArray(m1, "product", product), "product", 1, 1)

\* lines 67-74: mu_ang is made by np.arctan2 and fixed up in place
HewsonBetaMem(m, l) ==
    LET m1 == NpCopy(m, "mu_mag", "abs_mu")
        m2 == NewArray(m1, "mu_ang",
                       Map2(LAMBDA y, x : ArcTan2(y, x), l.muy, l.mux))
    IN  SetCells(m2, "mu_ang", l.mu_ang)

\* lines 97-100
HewsonShiftsMem(m, l) ==
    LET m1 == RollsMem(m, "lonGrid", "left_lon", "right_lon")
        m2 == SetCells(m1, "left_lon", SeamLeft(Load(m1, "left_lon")))
    IN  SetCells(m2, "right_lon", SeamRight(Load(m2, "right_lon")))

\* lines 114-116: eq6 = tot_div
HewsonTotDivMem(m, l) == NpAlias(NewArray(m, "tot_div", l.tot_div), "eq6", "tot_div")

\* lines 117-118: zc_6 is the array mask_zero_contour made (zc.out), zeroed
\* in place where a threshold fails
HewsonContourMem(m, zc_out, zc_6) ==
    SetCells(NewArray(NpAlias(m, "data", "eq6"), "zc_6", zc_out), "zc_6", zc_6)

\* lines 138-145
HewsonWindMem(m, a, l) ==
    LET m1 == NewArray(m, "rot_param",
                       Map1(LAMBDA lat : Div(GravityOver2Omega,
                                             Sin(Mul(10, lat))), a.latGrid))
        m2 == SetCells(m1, "rot_param", l.rot_param)
    IN  RollsMem(m2, "lonGrid", "left_lon", "right_lon")

---------------------------------------------------------------------------
(* The state machine: a caller has chosen an operation and its arguments  *)
(* (pc = "call"); the operation runs and returns (pc = "return").         *)
(* hewson_1998 runs a stage at a time; pc is the line it is at.           *)

\* the state before the call of the operation name with the arguments a
Calls(name, a) ==
    /\ pc = "call"
    /\ op = name
    /\ arg = a
    /\ ret = [status |-> "none"]
    /\ loc = [none |-> TRUE]
    /\ dcalls = <<>>
    /\ mem = CallerMemory(name, a)
    /\ prev = [status |-> "none"]

InitWind == \E a \in WindInputs : Calls("simmonds_et_al_2012", a)
InitOps ==
    \/ \E a \in ShiftInputs : Calls("four_corner_shift", a)
    \/ \E a \in GradientInputs : Calls("geo_gradient", a)
    \/ \E a \in SmoothInputs : Calls("smooth_grid", a)
    \/ \E a \in ContourInputs : Calls("mask_zero_contour", a)
InitHewson == \E a \in HewsonInputs : Calls("hewson_1998", a)
Init == InitWind \/ InitOps \/ InitHewson

\* a call that returns r at once, having made the distance calls d
Returns(name, r, d) ==
    /\ pc = "call"
    /\ op = name
    /\ pc' = "return"
    /\ ret' = r
    /\ dcalls' = d
    /\ UNCHANGED <<op, arg, loc, prev>>

CallFourCornerShift ==
    /\ Returns("four_corner_shift",
               [status |-> "ok"] @@ four_corner_shift(arg.arr, arg.shift_len),
               <<>>)
    /\ mem' = RollsMem(mem, "arr", "left", "right")

CallGeoGradient ==
    /\ Returns("geo_gradient",
               [status |-> "ok"] @@ geo_gradient(arg.lat, arg.lon, arg.data),
               GradDistCalls(arg.lat, arg.lon))
    /\ mem' = GeoGradientMem(mem, "lat", "lon", "data")

CallSmoothGrid ==
    /\ Returns("smooth_grid",
               [status |-> "ok",
                out |-> smooth_grid(arg.inGrid, arg.iter, arg.center_weight)],
               <<>>)
    /\ mem' = SmoothGridMem(mem, "inGrid", arg.iter, arg.center_weight)

\* mask_zero_contour and simmonds_et_al_2012 assign to no array in place
CallMaskZeroContour ==
    /\ Returns("mask_zero_contour",
               mask_zero_contour(arg.latGrid, arg.lonGrid, arg.data), <<>>)
    /\ mem' = mem

CallSimmonds ==
    /\ Returns("simmonds_et_al_2012",
               simmonds_et_al_2012(arg.latGrid, arg.lonGrid, arg.u_prior,
                                   arg.v_prior, arg.u, arg.v), <<>>)
    /\ mem' = mem

\* hewson_1998 is called: lines 48-49
CallHewson ==
    /\ pc = "call"
    /\ op = "hewson_1998"
    /\ loc' = HewsonTheta(arg)
    /\ dcalls' = GradDistCalls(arg.latGrid, arg.lonGrid)
    /\ mem' = HewsonThetaMem(mem, loc')
    /\ ret' = [status |-> "running"]
    /\ pc' = "h50"
    /\ UNCHANGED <<op, arg, prev>>

\* a stage of hewson_1998 that assigns the locals l and goes on to line next
Stage(at, l, next) ==
    /\ pc = at
    /\ loc' = l @@ loc
    /\ pc' = next
    /\ UNCHANGED <<op, arg, ret, prev>>

Hewson50 ==
    /\ Stage("h50", HewsonMu(arg, loc), "h53")
    /\ dcalls' = dcalls \o GradDistCalls(arg.latGrid, arg.lonGrid)
    /\ mem' = HewsonMuMem(mem, loc)

Hewson53 ==
    /\ Stage("h53", HewsonMasks(arg, loc), "h67")
    /\ dcalls' = dcalls \o GradDistCalls(arg.latGrid, arg.lonGrid)
    /\ mem' = HewsonMasksMem(mem, loc)

Hewson67 ==
    /\ Stage("h67", HewsonBeta(arg, loc), "h94")
    /\ mem' = HewsonBetaMem(mem, loc')
    /\ UNCHANGED dcalls

Hewson94 ==
    /\ Stage("h94", HewsonShifts(arg, loc), "h102")
    /\ mem' = HewsonShiftsMem(mem, loc')
    /\ UNCHANGED dcalls

Hewson102 ==
    /\ Stage("h102", HewsonTotDiv(arg, loc), "h116")
    /\ mem' = HewsonTotDivMem(mem, loc')
    /\ dcalls' = dcalls \o HewsonTotDivDistCalls(loc)

\* mask_zero_contour returns zc_6, or raises and hewson_1998 with it
Hewson116 ==
    /\ pc = "h116"
    /\ LET zc == HewsonContour(arg, loc)
       IN  IF zc.status = "ok"
           THEN /\ loc' = [zc_6 |-> zc.zc_6] @@ loc
                /\ pc' = "h137"
                /\ ret' = ret
                /\ mem' = HewsonContourMem(mem,
                              mask_zero_contour(arg.latGrid, arg.lonGrid,
                                                loc.tot_div).out, zc.zc_6)
           ELSE /\ loc' = loc
                /\ pc' = "return"
                /\ ret' = zc
                /\ mem' = mem
    /\ UNCHANGED <<op, arg, dcalls, prev>>

Hewson137 ==
    /\ Stage("h137", HewsonWind(arg, loc), "h156")
    /\ mem' = HewsonWindMem(mem, arg, loc')
    /\ dcalls' = dcalls \o HewsonWindDistCalls(arg)

\* lines 156-167 make new arrays and assign to none in place
Hewson156 ==
    /\ Stage("h156", HewsonAdvection(arg, loc), "h167")
    /\ UNCHANGED <<dcalls, mem>>

Hewson167 ==
    /\ pc = "h167"
    /\ ret' = HewsonReturn(loc)
    /\ pc' = "return"
    /\ UNCHANGED <<op, arg, loc, dcalls, mem, prev>>

HewsonStep ==
    \/ Hewson50 \/ Hewson53 \/ Hewson67 \/ Hewson94 \/ Hewson102
    \/ Hewson116 \/ Hewson137 \/ Hewson156 \/ Hewson167

\* The caller makes the same call once more, with its arrays as they are in
\* memory now
CallAgain ==
    /\ pc = "return"
    /\ prev.status = "none"
    /\ pc' = "call"
    /\ arg' = CallerArrays(op, mem)
    /\ mem' = CallerMemory(op, CallerArrays(op, mem))
    /\ prev' = ret
    /\ ret' = [status |-> "none"]
    /\ loc' = [none |-> TRUE]
    /\ dcalls' = <<>>
    /\ UNCHANGED op

NextWind == CallSimmonds
NextOps ==
    \/ CallFourCornerShift
    \/ CallGeoGradient
    \/ CallSmoothGrid
    \/ CallMaskZeroContour
NextHewson == CallHewson \/ HewsonStep
Next == NextWind \/ NextOps \/ NextHewson \/ CallAgain

SpecWind == InitWind /\ [][NextWind]_vars
SpecOps == InitOps /\ [][NextOps]_vars
SpecHewson == InitHewson /\ [][NextHewson]_vars
Spec == Init /\ [][Next]_vars

---------------------------------------------------------------------------
(* The properties.  A cell is a pair of a row and a column of a grid.      *)

Returned(name) == pc = "return" /\ op = name
ReturnedOk(name) == Returned(name) /\ ret.status = "ok"

\* every cell of the grid g satisfies P
AllCells(g, P(_, _)) == \A i \in 1..NRows(g) : \A j \in 1..NCols(g) : P(i, j)
SomeCell(g, P(_, _)) == \E i \in 1..NRows(g) : \E j \in 1..NCols(g) : P(i, j)

---------------------------------------------------------------------------
(* Wind-shift detector *)

\* The rule of the wind-shift detector at one cell, on plain numbers: winds
\* in units of 0.5 m/s, so that 2.0 m/s is 4.  A missing value satisfies
\* no comparison.
WindShiftRule(lat, up, vp, u, v) ==
    /\ IsNum(lat) /\ IsNum(up) /\ IsNum(vp) /\ IsNum(u) /\ IsNum(v)
    /\ u > 0
    /\ up > 0
    /\ (v > 0 /\ lat < 0) \/ (v < 0 /\ lat > 0)
    /\ v * vp < 0
    /\ AbsInt(AbsInt(v) - AbsInt(vp)) > 4
    /\ AbsInt(lat) < 80

\* C1: simmonds_et_al_2012 flags a cell as cold front (1) if and only if
\* u > 0, u_prior > 0, v and the latitude have opposite signs,
\* v * v_prior < 0, |abs(v) - abs(v_prior)| > 2.0 m/s and |lat| < 80 all
\* hold at that cell; every other cell is 0, whatever the longitude grid.
C1_FlagIffRule ==
    ReturnedOk("simmonds_et_al_2012") =>
        AllCells(ret.cf, LAMBDA i, j :
            ret.cf[i][j] =
                IF WindShiftRule(At(arg.latGrid, i, j), At(arg.u_prior, i, j),
                                 At(arg.v_prior, i, j), At(arg.u, i, j),
                                 At(arg.v, i, j))
                THEN 1 ELSE 0)

\* a cell is flagged, on a longitude grid other than 0
C1_Flagged ==
    /\ ReturnedOk("simmonds_et_al_2012")
    /\ arg.lonGrid = <<<<190>>>>
    /\ ret.cf = <<<<1>>>>

\* the cell lat = 10, u_prior = 1, v_prior = -3, u = 1 with the given v
Fixture(v) ==
    /\ Returned("simmonds_et_al_2012")
    /\ arg.latGrid = <<<<10>>>>
    /\ arg.u_prior = <<<<2>>>>
    /\ arg.v_prior = <<<<-6>>>>
    /\ arg.u = <<<<2>>>>
    /\ arg.v = <<<<v>>>>

\* |abs(v) - abs(v_prior)| of the call, in units of 0.5 m/s
FixtureMagDiff == AbsInt(AbsInt(arg.v[1][1]) - AbsInt(arg.v_prior[1][1]))

\* C2, as stated: with v = 1 the fixture cell is not flagged, and with
\* v = 1.5 it is flagged as a cold front
C2_FixtureAsStated ==
    /\ Fixture(2) => ret.status = "ok" /\ ret.cf = <<<<0>>>>
    /\ Fixture(3) => ret.status = "ok" /\ ret.cf = <<<<1>>>>

\* C2, amended: with v = 1 the fixture cell is not flagged (magDiff is 2),
\* and with v = 1.5 magDiff is 1.5 and the cell is not flagged either
C2_FixtureNeverFlagged ==
    /\ Fixture(2) => ret.status = "ok" /\ ret.cf = <<<<0>>>> /\ FixtureMagDiff = 4
    /\ Fixture(3) => ret.status = "ok" /\ ret.cf = <<<<0>>>> /\ FixtureMagDiff = 3

\* the fixture with v = 1.5 has been evaluated
C2_FixtureEvaluated == Fixture(3) /\ ret.status = "ok"

\* C4: when two input grids of simmonds_et_al_2012 differ in shape the call
\* ends in an error; it never produces a result by broadcasting
C4_ShapeMismatchRefused ==
    (/\ Returned("simmonds_et_al_2012")
     /\ \E g \in {arg.lonGrid, arg.u_prior, arg.v_prior, arg.u, arg.v} :
            Shape(g) # Shape(arg.latGrid))
    => ret.status = "error"

---------------------------------------------------------------------------
(* Grid operations *)

\* C3: when the field has no zero crossing (strictly positive everywhere or
\* strictly negative everywhere), mask_zero_contour raises no error and
\* returns a mask of the field's shape in which every cell is 0
C3_EmptyContourAllZero ==
    (/\ Returned("mask_zero_contour")
     /\ \/ AllCells(arg.data, LAMBDA i, j : Gt(arg.data[i][j], 0))
        \/ AllCells(arg.data, LAMBDA i, j : Lt(arg.data[i][j], 0)))
    => /\ ret.status = "ok"
       /\ Shape(ret.out) = Shape(arg.data)
       /\ AllCells(ret.out, LAMBDA i, j : ret.out[i][j] = 0)

\* the field varies along the columns only
SameAlongRows(g) == AllCells(g, LAMBDA i, j : g[i][j] = g[i][1])

\* C7: for a field linear in distance, geo_gradient returns the constant
\* slope at every cell, the cells of the first and last rows and columns
\* included: neither derivative is missing anywhere, the x-derivative is
\* the same at every cell, and so is the y-derivative of a field that
\* varies along the columns only
C7_LinearFieldConstantSlope ==
    (/\ Returned("geo_gradient")
     /\ AllCells(arg.data, LAMBDA i, j : IsNum(arg.data[i][j])))
    => /\ ret.status = "ok"
       /\ AllCells(ret.dx, LAMBDA i, j : IsNum(ret.dx[i][j]))
       /\ AllCells(ret.dy, LAMBDA i, j : IsNum(ret.dy[i][j]))
       /\ AllCells(ret.dx, LAMBDA i, j : ret.dx[i][j] = ret.dx[1][1])
       /\ SameAlongRows(arg.data)
              => AllCells(ret.dy, LAMBDA i, j : ret.dy[i][j] = ret.dy[1][1])

\* C8: a cell whose input is missing has a missing output at that cell:
\* smooth_grid leaves a missing cell missing even when its neighbours are
\* valid, and both derivatives of geo_gradient are missing there
C8_MissingStaysMissing ==
    /\ ReturnedOk("smooth_grid") =>
           AllCells(arg.inGrid, LAMBDA i, j :
               IsNaN(arg.inGrid[i][j]) => IsNaN(ret.out[i][j]))
    /\ ReturnedOk("geo_gradient") =>
           AllCells(arg.data, LAMBDA i, j :
               IsNaN(arg.data[i][j])
                   => IsNaN(ret.dx[i][j]) /\ IsNaN(ret.dy[i][j]))

\* every cell of g holds the number c
Constant(g, c) == IsNum(c) /\ AllCells(g, LAMBDA i, j : g[i][j] = c)

\* C13: no operation changes an array its caller passed in, because it
\* writes in place only to arrays it made itself; and the same call made
\* again with the same arrays returns the same result.
C13_InputsNotMutated ==
    pc = "return" =>
        /\ CallerArrays(op, mem) = arg
        /\ prev.status # "none" => ret = prev

\* smooth_grid has returned twice after passes that wrote to outGrid in
\* place and changed it
C13_RepeatedAfterInPlaceWrites ==
    /\ Returned("smooth_grid")
    /\ prev.status = "ok"
    /\ arg.iter >= 1
    /\ ret.out # arg.inGrid

\* C11: smooth_grid applied to a field whose every cell holds the same
\* constant c returns a field equal to c at every cell, for every number of
\* iterations >= 0 and every center_weight, zero and negative included, on
\* every grid size
C11_ConstantFieldKept ==
    (/\ Returned("smooth_grid")
     /\ Constant(arg.inGrid, arg.inGrid[1][1]))
    => /\ ret.status = "ok"
       /\ Shape(ret.out) = Shape(arg.inGrid)
       /\ Constant(ret.out, arg.inGrid[1][1])

\* a constant field smoothed twice with a weight that makes the count of
\* the contributors of the cells of the first and last rows zero
C11_ConstantSmoothedZeroCount ==
    /\ ReturnedOk("smooth_grid")
    /\ Constant(arg.inGrid, 7)
    /\ NRows(arg.inGrid) = MaxRows
    /\ arg.iter = MaxIter
    /\ arg.center_weight = -3

\* C12: four_corner_shift(arr, shift_len = k) shifts by k cells in all four
\* directions: up[i][j] = arr[i-k][j] and down[i][j] = arr[i+k][j], missing
\* where the source row is outside the grid, and left[i][j] =
\* arr[i][(j+k) mod cols], right[i][j] = arr[i][(j-k) mod cols]; all four
\* results have the shape of arr.  (Rows and columns count from 1 here.)
C12_ShiftByK ==
    Returned("four_corner_shift") =>
        LET arr == arg.arr
            k == arg.shift_len
            r == NRows(arr)
            c == NCols(arr)
        IN  /\ ret.status = "ok"
            /\ \A d \in {ret.up, ret.down, ret.left, ret.right} :
                   Shape(d) = Shape(arr)
            /\ AllCells(arr, LAMBDA i, j :
                   /\ ret.up[i][j] = IF i - k >= 1 THEN arr[i - k][j] ELSE NaN
                   /\ ret.down[i][j] = IF i + k <= r THEN arr[i + k][j] ELSE NaN
                   /\ ret.left[i][j] = arr[i][((j - 1 + k) % c) + 1]
                   /\ ret.right[i][j] = arr[i][((j - 1 - k) % c) + 1])

\* The coordinate v = <<n, d>> (the fraction n / d) lies within the bounds of
\* the k-th of the centres: between the midpoints to the neighbouring
\* centres, the lower bound included; the first and the last centre reach
\* half a spacing outwards, and the end of the extent is included
WithinBounds(v, centres, k) ==
    LET n == Len(centres)
        before == IF k > 1 THEN centres[k - 1]
                  ELSE 2 * centres[1] - centres[2]
        after == IF k < n THEN centres[k + 1]
                 ELSE 2 * centres[n] - centres[n - 1]
        m1 == centres[k] + before
        m2 == centres[k] + after
        lo == IF m1 <= m2 THEN m1 ELSE m2
        hi == IF m1 <= m2 THEN m2 ELSE m1
    IN  /\ lo * v[2] <= 2 * v[1]
        /\ 2 * v[1] < hi * v[2]

\* C14: given a non-empty set of isoline vertices, the cell (i, j) of the
\* mask is 1 if and only if some vertex has its latitude within the bounds
\* of row i and its longitude within the bounds of column j, the bounds
\* being the midpoints between adjacent grid centres; this holds for an
\* ascending as well as a descending latitude axis
C14_RasterizedByMidpoints ==
    (/\ Returned("mask_zero_contour")
     /\ ContourVertices(arg.latGrid, arg.lonGrid, arg.data) # {})
    => /\ ret.status = "ok"
       /\ AllCells(arg.data, LAMBDA i, j :
              ret.out[i][j] = 1
                  <=> \E v \in ContourVertices(arg.latGrid, arg.lonGrid,
                                               arg.data) :
                          /\ WithinBounds(v.x,
                                 [r \in 1..NRows(arg.latGrid) |->
                                     arg.latGrid[r][1]], i)
                          /\ WithinBounds(v.y, arg.lonGrid[1], j))

---------------------------------------------------------------------------
(* Thermal-front detector *)

\* the rasterized zero contour of tot_div, before the thresholds
ZeroContour == mask_zero_contour(arg.latGrid, arg.lonGrid, loc.tot_div).out

\* the cell (i, j) is on the zero contour and passes both thresholds
Eligible(i, j) ==
    /\ ZeroContour[i][j] = 1
    /\ Gt(loc.m1[i][j], k1)
    /\ Gt(loc.m2[i][j], k2)

\* C5: the warm-front mask is 1 if and only if the cell is on the zero
\* contour of tot_div and m1 > k1 and m2 > k2 and gta > 0; the cold-front
\* mask is 1 if and only if the same holds with gta < 0; every other cell,
\* a contour cell failing a threshold included, is 0 in the mask
C5_MasksIffEligible ==
    ReturnedOk("hewson_1998") =>
        /\ AllCells(ret.wf, LAMBDA i, j :
               ret.wf[i][j] =
                   IF Eligible(i, j) /\ Gt(loc.gta[i][j], 0) THEN 1 ELSE 0)
        /\ AllCells(ret.cf, LAMBDA i, j :
               ret.cf[i][j] =
                   IF Eligible(i, j) /\ Lt(loc.gta[i][j], 0) THEN 1 ELSE 0)

\* a warm front is flagged
C5_WarmFrontFlagged ==
    /\ ReturnedOk("hewson_1998")
    /\ SomeCell(ret.wf, LAMBDA i, j : ret.wf[i][j] = 1)

\* C6: every distance call that reads left/right shifted longitude copies
\* reads them seam-corrected: the last column of the left copy is the first
\* column of the grid plus 360, the first column of the right copy is the
\* last column of the grid minus 360.  The calls are those of lines 496
\* and 497 (geo_gradient) and of lines 103 and 151 (hewson_1998).
C6_SeamCorrectedBeforeDistance ==
    \A k \in 1..Len(dcalls) :
        LET d == dcalls[k]
            lon == arg.lonGrid
            c == NCols(lon)
        IN  /\ d.site \in {496, 103, 151} =>
                   \A i \in 1..NRows(lon) : d.lon0[i][c] = lon[i][1] + 360
            /\ d.site \in {497, 103, 151} =>
                   \A i \in 1..NRows(lon) : d.lon1[i][1] = lon[i][c] - 360

OutOfRange(lat) == AbsInt(lat) > 70 \/ AbsInt(lat) < 20

\* C9: every cell whose latitude has |lat| > 70 or |lat| < 20 is 0 in both
\* masks; at |lat| = 20 and |lat| = 70 the rotation parameter is a number,
\* so that the cell stays eligible; and a call that ends in an error has
\* ended before the latitude limits were applied
C9_LatitudeLimits ==
    /\ ReturnedOk("hewson_1998") =>
           AllCells(ret.wf, LAMBDA i, j :
               OutOfRange(arg.latGrid[i][j])
                   => ret.wf[i][j] = 0 /\ ret.cf[i][j] = 0)
    /\ "rot_param" \in DOMAIN loc =>
           AllCells(arg.latGrid, LAMBDA i, j :
               AbsInt(arg.latGrid[i][j]) \in {20, 70}
                   => IsNum(loc.rot_param[i][j]))
    /\ (Returned("hewson_1998") /\ ret.status = "error")
           => "rot_param" \notin DOMAIN loc

\* a cell beyond 70 degrees on the zero contour that passes both thresholds
C9_MaskedContourCell ==
    /\ ReturnedOk("hewson_1998")
    /\ SomeCell(ret.wf, LAMBDA i, j :
           /\ AbsInt(arg.latGrid[i][j]) > 70
           /\ Eligible(i, j)
           /\ ret.wf[i][j] = 0
           /\ ret.cf[i][j] = 0)

\* theta has a uniform gradient and no curvature: abs_mu is 0 wherever it
\* is defined, and the gradient is the same wherever it is defined
UniformGradient ==
    /\ "abs_mu" \in DOMAIN loc
    /\ AllCells(loc.abs_mu, LAMBDA i, j :
           IsNaN(loc.abs_mu[i][j]) \/ loc.abs_mu[i][j] = 0)
    /\ \A i1 \in 1..HRows, i2 \in 1..HRows :
           IsNum(loc.gy[i1][1]) /\ IsNum(loc.gy[i2][1])
               => loc.gy[i1][1] = loc.gy[i2][1]

\* C10: for a theta field of uniform gradient the m2 threshold mask is
\* false at every cell, whatever the gradient, and hewson_1998 returns
\* warm and cold masks that are 0 at every cell
C10_UniformGradientNoFront ==
    UniformGradient =>
        /\ "m2_mask" \in DOMAIN loc =>
               AllCells(loc.m2_mask, LAMBDA i, j : ~loc.m2_mask[i][j])
        /\ pc = "return" =>
               /\ ret.status = "ok"
               /\ AllCells(ret.wf, LAMBDA i, j :
                      ret.wf[i][j] = 0 /\ ret.cf[i][j] = 0)

\* C15: in every result hewson_1998 returns, each cell of the warm mask and
\* of the cold mask is exactly 0 or 1, no cell is 1 in both masks, and a
\* cell whose gta is 0 or missing is 0 in both
C15_MasksBinaryAndDisjoint ==
    ReturnedOk("hewson_1998") =>
        AllCells(ret.wf, LAMBDA i, j :
            /\ ret.wf[i][j] \in {0, 1}
            /\ ret.cf[i][j] \in {0, 1}
            /\ ~(ret.wf[i][j] = 1 /\ ret.cf[i][j] = 1)
            /\ (IsNaN(loc.gta[i][j]) \/ loc.gta[i][j] = 0)
                   => ret.wf[i][j] = 0 /\ ret.cf[i][j] = 0)

\* a result with a flagged cell next to a cell of the zero contour that
\* passes both thresholds and whose gta is missing
C15_FlaggedBesideMissingGta ==
    /\ ReturnedOk("hewson_1998")
    /\ SomeCell(ret.wf, LAMBDA i, j : ret.wf[i][j] = 1 \/ ret.cf[i][j] = 1)
    /\ SomeCell(ret.wf, LAMBDA i, j :
           loc.zc_6[i][j] = 1 /\ IsNaN(loc.gta[i][j]))

=============================================================================
